---- MODULE Spec2Model ----
(***************************************************************************)
(* State-machine model of the benchmark action's run() entry points.       *)
(*                                                                         *)
(* The repository holds six revisions of run():                            *)
(*   "multi"     src/unnamed/part_003:27-216   discovered pages, baseline  *)
(*               file, per-page try/catch/finally, guarded cleanup         *)
(*   "spawn"     src/unnamed/part_003:244-388  spawned http-server, one    *)
(*               fixed page, threshold hard-coded to 5                     *)
(*   "devlocal"  src/unnamed/part_003:493-665  dev.html vs local.html,     *)
(*               grouped by result name, guarded cleanup                   *)
(*   "single"    src/unnamed/part_003:699-875  one fixed page, baseline    *)
(*               file, 'N/A' placeholder                                   *)
(*   "averaged"  src/unnamed/part_003:996-1141 REPEATS isolated browsers   *)
(*               per (scenario, variant), FPS-scaled tolerance             *)
(*   "multiold"  src/unnamed/part_004:27-197   discovered pages, baseline  *)
(*               file, no per-page try                                     *)
(*                                                                         *)
(* Every await of the source is one step; the outcome of an external call  *)
(* (Playwright, Octokit) is a nondeterministic choice between success and  *)
(* rejection.  JavaScript numbers are exact rationals plus NaN and the two *)
(* infinities; IEEE rounding is not modelled.                              *)
(***************************************************************************)
EXTENDS Integers, Sequences, FiniteSets, TLC

\* ------------------------------------------------------------------ bounds
MaxScen == 2
\* scenarios of a sequence of invocations
SeqScen == 1
\* invocations in a sequence
MaxInvocations == 2
\* marker-containing comments in the sink before the first invocation
MaxMarked == 2

\* ------------------------------------------------------- program constants
REPEATS == 3
HardThreshold == 5
ReferenceFps == 60

Variants == {"multi", "spawn", "devlocal", "single", "averaged", "multiold"}

\* ------------------------------------------------------ JavaScript numbers
RECURSIVE Gcd(_, _)
Gcd(a, b) == IF b = 0 THEN a ELSE Gcd(b, a % b)

Abs(x) == IF x < 0 THEN -x ELSE x

Min(S) == CHOOSE x \in S : \A y \in S : x <= y

NaN == [k |-> "nan", n |-> 0, d |-> 1]
PInf == [k |-> "pinf", n |-> 0, d |-> 1]
NInf == [k |-> "ninf", n |-> 0, d |-> 1]
Null == [k |-> "null", n |-> 0, d |-> 1]
NotAvailable == [k |-> "str", n |-> 0, d |-> 1]

Fin(n, d) ==
  LET g == Gcd(Abs(n), Abs(d))
      s == IF d < 0 THEN -1 ELSE 1
  IN [k |-> "fin", n |-> (s * n) \div g, d |-> (s * d) \div g]

Num(i) == Fin(i, 1)

IsFin(x) == x.k = "fin"

Sign(x) ==
  CASE x.k = "pinf" -> 1
    [] x.k = "ninf" -> -1
    [] x.k = "fin" -> (IF x.n > 0 THEN 1 ELSE IF x.n < 0 THEN -1 ELSE 0)
    [] OTHER -> 0

NumAdd(a, b) ==
  CASE a.k = "nan" \/ b.k = "nan" -> NaN
    [] a.k = "fin" /\ b.k = "fin" -> Fin(a.n * b.d + b.n * a.d, a.d * b.d)
    [] a.k = "fin" -> b
    [] b.k = "fin" -> a
    [] a.k = b.k -> a
    [] OTHER -> NaN

NumNeg(a) ==
  CASE a.k = "fin" -> Fin(-a.n, a.d)
    [] a.k = "pinf" -> NInf
    [] a.k = "ninf" -> PInf
    [] OTHER -> NaN

NumSub(a, b) == NumAdd(a, NumNeg(b))

NumMul(a, b) ==
  CASE a.k = "nan" \/ b.k = "nan" -> NaN
    [] a.k = "fin" /\ b.k = "fin" -> Fin(a.n * b.n, a.d * b.d)
    [] Sign(a) * Sign(b) > 0 -> PInf
    [] Sign(a) * Sign(b) < 0 -> NInf
    [] OTHER -> NaN

NumDiv(a, b) ==
  CASE a.k = "nan" \/ b.k = "nan" -> NaN
    [] a.k = "fin" /\ b.k = "fin" /\ b.n # 0 -> Fin(a.n * b.d, a.d * b.n)
    [] a.k = "fin" /\ b.k = "fin" ->
         (IF a.n > 0 THEN PInf ELSE IF a.n < 0 THEN NInf ELSE NaN)
    [] a.k = "fin" -> Num(0)
    [] b.k = "fin" -> (IF Sign(a) * (IF b.n < 0 THEN -1 ELSE 1) > 0 THEN PInf ELSE NInf)
    [] OTHER -> NaN

NumGt(a, b) ==
  CASE a.k = "nan" \/ b.k = "nan" -> FALSE
    [] a.k = "fin" /\ b.k = "fin" -> a.n * b.d > b.n * a.d
    [] a.k = "pinf" -> b.k # "pinf"
    [] b.k = "ninf" -> a.k # "ninf"
    [] OTHER -> FALSE

\* Math.max(a, b): NaN if either argument is NaN
NumMax(a, b) ==
  IF a.k = "nan" \/ b.k = "nan" THEN NaN
  ELSE IF NumGt(b, a) THEN b ELSE a


\* --------------------------------------------------------- value domains
Undefined == [k |-> "undef", n |-> 0, d |-> 1]

\* Number(x): undefined converts to NaN, a number is kept
ToNumber(x) == IF x.k = "undef" THEN NaN ELSE x

\* window.benchmarkResult.fps as produced by a harness page
RawFps == {Num(54), Num(60)}
\* fps of an entry of the baseline file
BaselineFps == {Num(0), Num(60)}
\* Number(core.getInput('perf-change'))
PerfChanges == {Num(5), Num(10)}
\* names reported by the scenarios (not unique across directories)
Names == {"a", "b"}

RECURSIVE SeqsUpTo(_, _)
SeqsUpTo(S, n) ==
  IF n = 0 THEN {<<>>}
  ELSE LET shorter == SeqsUpTo(S, n - 1)
       IN shorter \cup {Append(q, x) : q \in {r \in shorter : Len(r) = n - 1}, x \in S}

\* variants whose page list is discovered from the benchmark root
Discovering == {"multi", "multiold", "devlocal", "averaged"}
\* variants that open every page in one shared browser
SharedBrowser == {"multi", "spawn", "devlocal", "single", "multiold"}
\* variants with a per-page try/catch/finally and a guarded cleanup phase
Guarded == {"multi", "devlocal"}
\* variants that read a baseline file
WithBaseline == {"multi", "spawn", "single", "multiold"}
\* variants that write prResults to the output file
WritesOutput == {"multi", "spawn", "single", "multiold"}
\* variants that call ensureBenchmarkHtmlTemplates
Ensuring == {"devlocal", "averaged"}
\* variants comparing with a fixed threshold
FixedThreshold == {"multi", "spawn", "devlocal", "single", "multiold"}

\* variation of DiffPercent: operands of the subtraction exchanged
DiffPercentSwapped(devFPS, prFPS) ==
  NumMul(NumDiv(NumSub(prFPS, devFPS), devFPS), Num(100))

\* ------------------------------------------------------------ comparator
\* ((devFPS - prFPS) / devFPS) * 100
DiffPercent(devFPS, prFPS) ==
  NumMul(NumDiv(NumSub(devFPS, prFPS), devFPS), Num(100))

\* diffPercent > 0 ? down : up
Arrow(diffPercent) == IF NumGt(diffPercent, Num(0)) THEN "down" ELSE "up"

\* threshold a fixed-threshold variant compares diffPercent with
Threshold(v, perfChange) == IF v = "spawn" THEN Num(HardThreshold) ELSE perfChange

\* variation of Regression: >= in place of >
RegressionInclusive(diffPercent, threshold) ==
  NumGt(diffPercent, threshold) \/ (IsFin(diffPercent) /\ diffPercent = threshold)

\* regression = diffPercent > threshold
Regression(diffPercent, threshold) == NumGt(diffPercent, threshold)

ComparedRow(name, devFPS, prFPS, threshold) ==
  LET diffPercent == DiffPercent(devFPS, prFPS)
  IN [name |-> name, devFPS |-> devFPS, prFPS |-> prFPS,
      diffPercent |-> diffPercent,
      regression |-> Regression(diffPercent, threshold),
      arrow |-> Arrow(diffPercent)]

\* row pushed when baseline[i] is missing
MissingBaselineRow(v, prResult) ==
  [name |-> prResult.name, devFPS |-> Null, prFPS |-> ToNumber(prResult.fps),
   diffPercent |-> IF v = "single" THEN NotAvailable ELSE Null,
   regression |-> FALSE, arrow |-> "null"]

\* for (let i = 0; i < pages.length; i++) over prResults[i], baseline[i]
RECURSIVE IndexedRows(_, _, _, _, _)
IndexedRows(v, prResults, baseline, threshold, i) ==
  IF i > Len(prResults) THEN <<>>
  ELSE LET rest == IndexedRows(v, prResults, baseline, threshold, i + 1)
       IN IF i > Len(baseline)
          THEN (IF v = "spawn" THEN rest
                ELSE <<MissingBaselineRow(v, prResults[i])>> \o rest)
          ELSE <<ComparedRow(prResults[i].name, ToNumber(baseline[i]),
                             ToNumber(prResults[i].fps), threshold)>> \o rest

\* keys of the `grouped` Map in insertion order
RECURSIVE GroupedNames(_, _)
GroupedNames(rawResults, i) ==
  IF i > Len(rawResults) THEN <<>>
  ELSE IF \E j \in 1..(i - 1) : rawResults[j].name = rawResults[i].name
       THEN GroupedNames(rawResults, i + 1)
       ELSE <<rawResults[i].name>> \o GroupedNames(rawResults, i + 1)

\* grouped.get(name)[side]: the last result of that name and side wins
GroupedValue(rawResults, name, sd) ==
  LET S == {j \in 1..Len(rawResults) :
              rawResults[j].name = name /\ rawResults[j].variant = sd}
  IN IF S = {} THEN Null
     ELSE ToNumber(rawResults[CHOOSE j \in S : \A l \in S : l <= j].fps)

GroupedRows(rawResults, threshold) ==
  LET names == GroupedNames(rawResults, 1)
  IN [r \in 1..Len(names) |->
        LET devFPS == GroupedValue(rawResults, names[r], "dev")
            localFPS == GroupedValue(rawResults, names[r], "local")
        IN IF devFPS.k = "null" \/ localFPS.k = "null"
           THEN [name |-> names[r], devFPS |-> devFPS, prFPS |-> localFPS,
                 diffPercent |-> Null, regression |-> FALSE, arrow |-> "null"]
           ELSE ComparedRow(names[r], devFPS, localFPS, threshold)]

\* sampleFPS.reduce((a, b) => a + b, 0) / sampleFPS.length
RECURSIVE SumFps(_, _)
SumFps(samples, i) ==
  IF i > Len(samples) THEN Num(0)
  ELSE NumAdd(ToNumber(samples[i]), SumFps(samples, i + 1))

Avg(samples) == NumDiv(SumFps(samples, 1), Num(Len(samples)))

\* largest r with r * r <= n
ISqrt(n) == CHOOSE r \in 0..n : r * r <= n /\ n < (r + 1) * (r + 1)

\* Math.sqrt(x): exact for the square of a rational; any other positive
\* rational x has an irrational root, kept as its radicand
Sqrt(x) ==
  CASE x.k = "pinf" -> PInf
    [] x.k = "fin" /\ x.n >= 0 ->
         (IF ISqrt(x.n) * ISqrt(x.n) = x.n /\ ISqrt(x.d) * ISqrt(x.d) = x.d
          THEN Fin(ISqrt(x.n), ISqrt(x.d))
          ELSE [k |-> "sqrt", n |-> x.n, d |-> x.d])
    [] OTHER -> NaN

\* sampleFPS.reduce((s, n) => s + (n - avg) ** 2, 0)
RECURSIVE SumSquares(_, _, _)
SumSquares(samples, avg, i) ==
  IF i > Len(samples) THEN Num(0)
  ELSE LET dev == NumSub(ToNumber(samples[i]), avg)
       IN NumAdd(NumMul(dev, dev), SumSquares(samples, avg, i + 1))

\* variation of Stddev: the sample standard deviation (N - 1)
StddevSample(samples, avg) ==
  Sqrt(NumDiv(SumSquares(samples, avg, 1), Num(Len(samples) - 1)))

\* Math.sqrt(sampleFPS.reduce(...) / sampleFPS.length)
Stddev(samples, avg) ==
  Sqrt(NumDiv(SumSquares(samples, avg, 1), Num(Len(samples))))

\* return { avg, stddev, samples: sampleFPS }
RibAggregate(samples) ==
  [avg |-> Avg(samples), stddev |-> Stddev(samples, Avg(samples)),
   samples |-> samples]

\* variation of AllowedPercent: the tolerance is not scaled
AllowedPercentUnscaled(perfChange, devAvg) == perfChange

\* perfChange * (60 / Math.max(devResult.avg, 1))
AllowedPercent(perfChange, devAvg) ==
  NumMul(perfChange, NumDiv(Num(ReferenceFps), NumMax(devAvg, Num(1))))

AveragedRow(name, devAvg, localAvg, perfChange) ==
  ComparedRow(name, devAvg, localAvg, AllowedPercent(perfChange, devAvg))

\* a row whose formatting calls toFixed on the string 'N/A'
RenderThrows(rows) == \E r \in 1..Len(rows) : rows[r].diffPercent.k = "str"

\* regressionDetected after tableRows.forEach / the comparison loop
AnyRegression(rows) == \E r \in 1..Len(rows) : rows[r].regression

\* ------------------------------------------------------- harness pages
\* a harness page is absent, was put there by the user, or holds a template
Pages == {"local", "dev"}

\* the template ensureBenchmarkHtmlTemplates writes for a page
Template(p) == IF p = "local" THEN "localTemplate" ELSE "devTemplate"

\* the pages for which fs.existsSync is false, over all index.mjs directories
MissingPages(fs) ==
  {dp \in (DOMAIN fs) \X Pages : fs[dp[1]][dp[2]] = "absent"}

\* variation of EnsuredFiles: both pages are written in every directory
EnsuredFilesOverwriting(fs) == [d \in DOMAIN fs |-> [p \in Pages |-> Template(p)]]

\* the file system after ensureBenchmarkHtmlTemplates
EnsuredFiles(fs) ==
  [d \in DOMAIN fs |->
     [p \in Pages |-> IF fs[d][p] = "absent" THEN Template(p) ELSE fs[d][p]]]

\* a benchmark root whose index.mjs directories hold no harness page yet
InitialFiles(i) ==
  IF i.variant \in {"devlocal", "averaged"}
  THEN [d \in 1..i.nScen |-> [p \in Pages |-> "absent"]]
  ELSE <<>>

\* ------------------------------------------------------------ the state
VARIABLES
  input,              \* action inputs and environment, fixed for one invocation
  pc,                 \* position inside run()
  server,             \* "none" | "listening" | "closed"
  browserVar,         \* run()'s outer `browser` variable is assigned
  browser,            \* current browser instance: "none" | "open" | "closed" | "closeFailed"
  openPages,          \* pages opened and not yet closed
  page,               \* current page: "none" | "open" | "closed" | "closeFailed"
  idx,                \* number of pages (or scenarios, when averaged) completed
  side,               \* averaged: "dev" | "local"
  rep,                \* averaged: loop counter i of runIsolatedBenchmark
  sampleFPS,          \* averaged: samples of the running runIsolatedBenchmark
  ribResult,          \* averaged: object the last runIsolatedBenchmark call returned
  devResult,          \* averaged: avg returned for the dev page of the scenario
  results,            \* prResults / rawResults
  tableRows,          \* tableRows / comparisons
  regressionDetected,
  rendered,           \* the comment body has been built
  err,                \* exception in flight or caught by run()'s catch
  primary,            \* error E that made a benchmark execution fail
  lastFailed,         \* message of the last core.setFailed call, "none" if none
  warned,             \* core.warning was called by the cleanup phase
  outputWrites,       \* number of writes of the results file
  sinkMarked,         \* marker-containing comments in the sink
  sinkOps,            \* comment-sink operations performed
  launched,           \* chromium.launch calls that returned a browser
  closeInvoked,       \* browser.close calls
  existing,           \* comments.find(...) found a marker-containing comment
  files,              \* harness pages next to each index.mjs: local.html, dev.html
  fileWrites,         \* fs.writeFileSync calls of ensureBenchmarkHtmlTemplates
  outputContent,      \* content of the results file, <<>> while not written
  invocation,         \* number of the run() invocation in progress
  sinkBefore,         \* marker-containing comments before the first invocation
  otherPc,            \* posting step of a concurrent invocation: "idle" | "list" | "upsert" | "done"
  otherExisting,      \* what the concurrent invocation's comments.find(...) found
  execStarted         \* pages opened for a benchmark execution

vars == <<input, pc, server, browserVar, browser, page, openPages, idx, side, rep,
          sampleFPS, devResult, ribResult,
          results, tableRows, regressionDetected,
          rendered, err, primary, lastFailed, warned, outputWrites,
          sinkMarked, sinkOps, launched, closeInvoked, existing,
          files, fileWrites, outputContent, invocation, sinkBefore,
          otherPc, otherExisting,
          execStarted>>

variant == input.variant

\* number of scenarios the variant works on
ScenCounts(v) == IF v \in Discovering THEN 0..MaxScen ELSE {1}

Inputs ==
  { [variant |-> v, distExists |-> de, pixiExists |-> pe, nScen |-> n,
     names |-> nm, baselineExists |-> be, baseline |-> bl,
     perfChange |-> pcg, token |-> tk] :
      v \in Variants, de \in BOOLEAN, pe \in BOOLEAN, n \in 0..MaxScen,
      nm \in SeqsUpTo(Names, MaxScen), be \in BOOLEAN,
      bl \in SeqsUpTo(BaselineFps, MaxScen), pcg \in PerfChanges,
      tk \in BOOLEAN }

WellFormed(i) ==
  /\ i.nScen \in ScenCounts(i.variant)
  /\ Len(i.names) = i.nScen
  /\ (i.variant # "devlocal" => \A j \in 1..Len(i.names) : i.names[j] = "a")
  /\ Len(i.baseline) <= i.nScen
  /\ (~(i.variant \in WithBaseline /\ i.baselineExists) => i.baseline = <<>>)
  /\ (i.variant \notin WithBaseline => ~i.baselineExists)
  /\ (i.variant = "spawn" => i.pixiExists)
  /\ (~(i.distExists /\ i.pixiExists) =>
        /\ i.nScen = Min(ScenCounts(i.variant)) /\ i.baseline = <<>>
        /\ ~i.baselineExists /\ ~i.token /\ i.perfChange = Num(5))

Init ==
  /\ input \in {i \in Inputs : WellFormed(i)}
  /\ pc = "start"
  /\ server = "none"
  /\ browserVar = FALSE
  /\ browser = "none"
  /\ page = "none"
  /\ openPages = 0
  /\ idx = 0
  /\ side = "dev"
  /\ rep = 0
  /\ sampleFPS = <<>>
  /\ devResult = Null
  /\ ribResult = Null
  /\ results = <<>>
  /\ tableRows = <<>>
  /\ regressionDetected = FALSE
  /\ rendered = FALSE
  /\ err = "none"
  /\ primary = "none"
  /\ lastFailed = "none"
  /\ warned = FALSE
  /\ outputWrites = 0
  /\ sinkMarked \in (IF input.token THEN {0, 1} ELSE {0})
  /\ sinkOps = <<>>
  /\ launched = 0
  /\ closeInvoked = 0
  /\ existing = FALSE
  /\ files = InitialFiles(input)
  /\ fileWrites = 0
  /\ outputContent = <<>>
  /\ invocation = 1
  /\ sinkBefore = sinkMarked
  /\ otherPc = "idle"
  /\ otherExisting = FALSE
  /\ execStarted = 0


\* ----------------------------------------------------------- the program
loopVars == <<idx, side, rep, sampleFPS, devResult, ribResult, results>>
reportVars == <<tableRows, regressionDetected, rendered, outputWrites, outputContent>>
fsVars == <<files, fileWrites>>
seqVars == <<invocation, sinkBefore, otherPc, otherExisting>>
sinkVars == <<sinkMarked, sinkOps, existing>>
handleVars == <<server, browserVar, browser, page, openPages, launched, closeInvoked, execStarted>>

\* pages.length
NPages == IF variant = "devlocal" THEN 2 * input.nScen ELSE input.nScen

\* first step of the cleanup phase (the finally block of run())
Cleanup ==
  IF variant \in Guarded /\ browserVar THEN "finBrowser"
  ELSE IF server # "none" THEN "finServer"
  ELSE "done"

\* where control goes after the page loop has finished
AfterLoop == IF variant \in Guarded THEN "report" ELSE "afterLoop"

\* where control goes when goto / waitForFunction / reading the result rejects
AfterExecFail(v) ==
  IF v = "averaged" THEN "ribFinally"
  ELSE IF v \in Guarded THEN "closePage"
  ELSE "catch"

\* input checks and start of the static server
Configure ==
  /\ pc = "start"
  /\ IF ~input.distExists
     THEN /\ err' = "distNotFound" /\ pc' = "catch"
          /\ UNCHANGED <<server, lastFailed>>
     ELSE IF ~input.pixiExists
     THEN IF variant = "averaged"
          THEN /\ err' = "pixiNotFound" /\ pc' = "catch"
               /\ UNCHANGED <<server, lastFailed>>
          ELSE /\ lastFailed' = "pixiNotFound" /\ pc' = Cleanup
               /\ UNCHANGED <<server, err>>
     ELSE /\ server' = "listening"
          /\ UNCHANGED lastFailed
          /\ \/ pc' = "discover" /\ UNCHANGED err
             \/ /\ variant = "spawn"           \* waitForServer gives up
                /\ err' = "serverTimeout" /\ pc' = "catch"
  /\ UNCHANGED <<fsVars, seqVars, input, browserVar, browser, page, openPages,
                 launched, closeInvoked,
                 execStarted, primary, warned>>
  /\ UNCHANGED <<loopVars, reportVars, sinkVars>>

\* building the page list
Discover ==
  /\ pc = "discover"
  /\ IF variant \in Ensuring
     THEN /\ files' = EnsuredFiles(files)
          /\ fileWrites' = fileWrites + Cardinality(MissingPages(files))
     ELSE UNCHANGED fsVars
  /\ IF input.nScen = 0 /\ variant = "devlocal"
     THEN /\ lastFailed' = "noEntries" /\ pc' = Cleanup /\ UNCHANGED err
     ELSE IF input.nScen = 0 /\ variant = "averaged"
     THEN /\ err' = "noEntries" /\ pc' = "catch" /\ UNCHANGED lastFailed
     ELSE /\ pc' = (IF variant = "averaged" THEN "ribLaunch" ELSE "launch")
          /\ UNCHANGED <<err, lastFailed>>
  /\ UNCHANGED <<seqVars, input, primary, warned>>
  /\ UNCHANGED <<handleVars, loopVars, reportVars, sinkVars>>

\* chromium.launch of the shared browser
Launch ==
  /\ pc = "launch"
  /\ \/ /\ browser' = "open"
        /\ browserVar' = (variant \in Guarded)
        /\ launched' = launched + 1
        /\ pc' = (IF NPages = 0 THEN AfterLoop ELSE "newPage")
        /\ UNCHANGED err
     \/ /\ err' = "launch" /\ pc' = "catch"
        /\ UNCHANGED <<browser, browserVar, launched>>
  /\ UNCHANGED <<fsVars, seqVars, input, server, page, openPages, closeInvoked, execStarted, primary,
                 lastFailed, warned>>
  /\ UNCHANGED <<loopVars, reportVars, sinkVars>>

\* chromium.launch at the top of a repeat of runIsolatedBenchmark
RibLaunch ==
  /\ pc = "ribLaunch"
  /\ \/ /\ browser' = "open" /\ page' = "none" /\ UNCHANGED openPages
        /\ launched' = launched + 1
        /\ pc' = "newPage"
        /\ UNCHANGED err
     \/ /\ err' = "launch" /\ pc' = "catch"
        /\ UNCHANGED <<browser, page, openPages, launched>>
  /\ UNCHANGED <<fsVars, seqVars, input, server, browserVar, closeInvoked, execStarted,
                 primary, lastFailed, warned>>
  /\ UNCHANGED <<loopVars, reportVars, sinkVars>>

\* browser.newPage (and setViewportSize in runSingleBenchmark)
NewPage ==
  /\ pc = "newPage"
  /\ \/ /\ page' = "open" /\ openPages' = openPages + 1
        /\ execStarted' = execStarted + 1
        /\ pc' = "goto"
        /\ UNCHANGED err
     \/ /\ err' = "newPage"
        /\ pc' = (IF variant = "averaged" THEN "ribFinally" ELSE "catch")
        /\ UNCHANGED <<page, openPages, execStarted>>
  /\ UNCHANGED <<fsVars, seqVars, input, server, browserVar, browser, launched, closeInvoked,
                 primary, lastFailed, warned>>
  /\ UNCHANGED <<loopVars, reportVars, sinkVars>>

\* variation of ExecFail: the per-page catch reports but does not rethrow
ExecFailSwallowed(e) ==
  /\ primary' = e
  /\ lastFailed' = "wrapped"
  /\ pc' = (IF variant = "averaged" THEN "ribFinally" ELSE "closePage")
  /\ UNCHANGED <<fsVars, seqVars, input, err, warned>>
  /\ UNCHANGED <<handleVars, loopVars, reportVars, sinkVars>>

\* a benchmark execution rejects with e
ExecFail(e) ==
  /\ primary' = e
  /\ err' = e
  /\ lastFailed' = (IF variant \in Guarded THEN "wrapped" ELSE lastFailed)
  /\ pc' = AfterExecFail(variant)
  /\ UNCHANGED <<fsVars, seqVars, input, warned>>
  /\ UNCHANGED <<handleVars, loopVars, reportVars, sinkVars>>

\* page.goto
Goto ==
  /\ pc = "goto"
  /\ \/ /\ pc' = "wait"
        /\ UNCHANGED <<fsVars, seqVars, input, err, primary, lastFailed, warned>>
        /\ UNCHANGED <<handleVars, loopVars, reportVars, sinkVars>>
     \/ ExecFail("nav")

\* page.waitForFunction(() => window.benchmarkResult)
WaitForResult ==
  /\ pc = "wait"
  /\ \/ /\ pc' = "read"
        /\ UNCHANGED <<fsVars, seqVars, input, err, primary, lastFailed, warned>>
        /\ UNCHANGED <<handleVars, loopVars, reportVars, sinkVars>>
     \/ ExecFail("timeout")

\* fps values the harness pages of this run can deliver
FpsValues == IF "fpsValues" \in DOMAIN input THEN input.fpsValues ELSE RawFps

\* index of the scenario whose page is being run
Scenario == IF variant = "devlocal" THEN (idx \div 2) + 1 ELSE idx + 1

\* resultHandle.jsonValue() / page.evaluate, and the push of the result
ReadResult ==
  /\ pc = "read"
  /\ \/ \E fps \in FpsValues :
          /\ IF variant = "averaged"
             THEN /\ sampleFPS' = Append(sampleFPS, fps)
                  /\ UNCHANGED results
             ELSE /\ results' = Append(results,
                        [name |-> input.names[Scenario], fps |-> fps,
                         variant |-> IF variant = "devlocal"
                                     THEN (IF idx % 2 = 0 THEN "dev" ELSE "local")
                                     ELSE "pr"])
                  /\ UNCHANGED sampleFPS
          /\ pc' = "closePage"
          /\ UNCHANGED <<fsVars, seqVars, input, err, primary, lastFailed, warned,
                         idx, side, rep, devResult, ribResult>>
          /\ UNCHANGED <<handleVars, reportVars, sinkVars>>
     \/ ExecFail("read")

\* variation of ClosePage: the page is left open when the execution ends
ClosePageSkipped ==
  /\ pc = "closePage"
  /\ UNCHANGED <<page, openPages, err>>
  /\ IF err # "none" THEN pc' = "catch" /\ UNCHANGED idx
     ELSE IF variant = "averaged" THEN pc' = "ribFinally" /\ UNCHANGED idx
     ELSE /\ idx' = idx + 1
          /\ pc' = (IF idx + 1 < NPages THEN "newPage" ELSE AfterLoop)
  /\ UNCHANGED <<fsVars, seqVars, input, server, browserVar, browser, launched, closeInvoked,
                 execStarted, primary, lastFailed, warned>>
  /\ UNCHANGED <<side, rep, sampleFPS, devResult, ribResult, results>>
  /\ UNCHANGED <<reportVars, sinkVars>>

\* page.close: end of the loop body, or the finally of the per-page try
ClosePage ==
  /\ pc = "closePage"
  /\ \/ /\ page' = "closed" /\ openPages' = openPages - 1
        /\ UNCHANGED err
        /\ IF err # "none" THEN pc' = "catch" /\ UNCHANGED idx
           ELSE IF variant = "averaged" THEN pc' = "ribFinally" /\ UNCHANGED idx
           ELSE /\ idx' = idx + 1
                /\ pc' = (IF idx + 1 < NPages THEN "newPage" ELSE AfterLoop)
     \/ /\ page' = "closeFailed" /\ UNCHANGED openPages
        /\ err' = "closePage"
        /\ pc' = (IF variant = "averaged" THEN "ribFinally" ELSE "catch")
        /\ UNCHANGED idx
  /\ UNCHANGED <<fsVars, seqVars, input, server, browserVar, browser, launched, closeInvoked,
                 execStarted, primary, lastFailed, warned>>
  /\ UNCHANGED <<side, rep, sampleFPS, devResult, ribResult, results>>
  /\ UNCHANGED <<reportVars, sinkVars>>

\* await browser.close() after the page loop (variants without cleanup guard)
CloseBrowserAfterLoop ==
  /\ pc = "afterLoop"
  /\ closeInvoked' = closeInvoked + 1
  /\ \/ /\ browser' = "closed" /\ pc' = "report" /\ UNCHANGED err
     \/ /\ browser' = "closeFailed" /\ err' = "closeBrowser" /\ pc' = "catch"
  /\ openPages' = (IF browser' = "closed" THEN 0 ELSE openPages)
  /\ UNCHANGED <<fsVars, seqVars, input, server, browserVar, page, launched, execStarted,
                 primary, lastFailed, warned>>
  /\ UNCHANGED <<loopVars, reportVars, sinkVars>>

\* variation of RibFinally: the browser is closed after a successful repeat only
RibFinallyOnSuccessOnly ==
  /\ pc = "ribFinally"
  /\ IF err # "none"
     THEN /\ pc' = "catch"
          /\ UNCHANGED <<closeInvoked, browser, err, rep>>
     ELSE /\ closeInvoked' = closeInvoked + 1
          /\ \/ /\ browser' = "closed"
                /\ UNCHANGED err
                /\ IF rep + 1 < REPEATS THEN pc' = "ribLaunch" /\ rep' = rep + 1
                   ELSE pc' = "ribReturn" /\ rep' = rep + 1
             \/ /\ browser' = "closeFailed"
                /\ err' = "closeBrowser"
                /\ pc' = "catch"
                /\ UNCHANGED rep
  /\ openPages' = (IF browser' = "closed" THEN 0 ELSE openPages)
  /\ UNCHANGED <<fsVars, seqVars, input, server, browserVar, page, launched, execStarted,
                 primary, lastFailed, warned>>
  /\ UNCHANGED <<idx, side, sampleFPS, devResult, ribResult, results>>
  /\ UNCHANGED <<reportVars, sinkVars>>

\* variation of RibFinally: the browser of a repeat is left open and only
\* the browser of the last repeat is closed
RibFinallyLastOnly ==
  /\ pc = "ribFinally"
  /\ IF err = "none" /\ rep + 1 < REPEATS
     THEN /\ pc' = "ribLaunch" /\ rep' = rep + 1
          /\ UNCHANGED <<closeInvoked, browser, err>>
     ELSE /\ closeInvoked' = closeInvoked + 1
          /\ \/ /\ browser' = "closed"
                /\ UNCHANGED err
                /\ IF err # "none" THEN pc' = "catch" /\ UNCHANGED rep
                   ELSE pc' = "ribReturn" /\ rep' = rep + 1
             \/ /\ browser' = "closeFailed"
                /\ err' = "closeBrowser"
                /\ pc' = "catch"
                /\ UNCHANGED rep
  /\ openPages' = (IF browser' = "closed" THEN 0 ELSE openPages)
  /\ UNCHANGED <<fsVars, seqVars, input, server, browserVar, page, launched, execStarted,
                 primary, lastFailed, warned>>
  /\ UNCHANGED <<idx, side, sampleFPS, devResult, ribResult, results>>
  /\ UNCHANGED <<reportVars, sinkVars>>

\* the finally block of one repeat of runIsolatedBenchmark
RibFinally ==
  /\ pc = "ribFinally"
  /\ closeInvoked' = closeInvoked + 1
  /\ \/ /\ browser' = "closed"
        /\ UNCHANGED err
        /\ IF err # "none" THEN pc' = "catch" /\ UNCHANGED rep
           ELSE IF rep + 1 < REPEATS THEN pc' = "ribLaunch" /\ rep' = rep + 1
           ELSE pc' = "ribReturn" /\ rep' = rep + 1
     \/ /\ browser' = "closeFailed"
        /\ err' = "closeBrowser"        \* throw new Error('Failed to close browser')
        /\ pc' = "catch"
        /\ UNCHANGED rep
  /\ openPages' = (IF browser' = "closed" THEN 0 ELSE openPages)
  /\ UNCHANGED <<fsVars, seqVars, input, server, browserVar, page, launched, execStarted,
                 primary, lastFailed, warned>>
  /\ UNCHANGED <<idx, side, sampleFPS, devResult, ribResult, results>>
  /\ UNCHANGED <<reportVars, sinkVars>>

\* return of runIsolatedBenchmark and, after the local page, the comparison
Aggregate ==
  /\ pc = "ribReturn"
  /\ rep' = 0
  /\ sampleFPS' = <<>>
  /\ ribResult' = RibAggregate(sampleFPS)
  /\ IF side = "dev"
     THEN /\ devResult' = Avg(sampleFPS)
          /\ side' = "local"
          /\ pc' = "ribLaunch"
          /\ UNCHANGED <<idx, tableRows>>
     ELSE /\ tableRows' = Append(tableRows,
                AveragedRow(input.names[idx + 1], devResult, Avg(sampleFPS),
                            input.perfChange))
          /\ devResult' = Null
          /\ side' = "dev"
          /\ idx' = idx + 1
          /\ pc' = (IF idx + 1 < input.nScen THEN "ribLaunch" ELSE "report")
  /\ UNCHANGED <<fsVars, seqVars, input, err, primary, lastFailed, warned, results,
                 regressionDetected, rendered, outputWrites, outputContent>>
  /\ UNCHANGED <<handleVars, sinkVars>>


\* rows the comparison phase of the variant builds
ComparisonRows ==
  IF variant = "averaged" THEN tableRows
  ELSE IF variant = "devlocal"
  THEN GroupedRows(results, Threshold(variant, input.perfChange))
  ELSE IndexedRows(variant, results, input.baseline,
                   Threshold(variant, input.perfChange), 1)

\* regressionDetected when the forEach that formats the rows stops at a throw
RegressionBeforeThrow(rows) ==
  LET first == CHOOSE r \in 1..Len(rows) :
                 /\ rows[r].diffPercent.k = "str"
                 /\ \A q \in 1..(r - 1) : rows[q].diffPercent.k # "str"
  IN \E q \in 1..(first - 1) : rows[q].regression

\* if (regressionDetected) core.setFailed(...) else core.info(...)
Verdict(regression, last) == IF regression THEN "regression" ELSE last

\* variation of Report: without token run() returns before the verdict
ReportSilentWithoutToken ==
  /\ pc = "report"
  /\ outputWrites' = (IF variant \in WritesOutput THEN outputWrites + 1
                      ELSE outputWrites)
  /\ outputContent' = (IF variant \in WritesOutput THEN results
                       ELSE outputContent)
  /\ IF variant = "spawn" /\ ~input.baselineExists
     THEN /\ pc' = Cleanup
          /\ UNCHANGED <<tableRows, regressionDetected, rendered, err, lastFailed>>
     ELSE LET rows == ComparisonRows
          IN /\ tableRows' = rows
             /\ IF RenderThrows(rows)
                THEN /\ regressionDetected' = RegressionBeforeThrow(rows)
                     /\ err' = "typeError"
                     /\ pc' = "catch"
                     /\ UNCHANGED <<rendered, lastFailed>>
                ELSE /\ regressionDetected' = AnyRegression(rows)
                     /\ rendered' = TRUE
                     /\ UNCHANGED err
                     /\ IF input.token
                        THEN pc' = "list" /\ UNCHANGED lastFailed
                        ELSE /\ UNCHANGED lastFailed
                             /\ pc' = Cleanup
  /\ UNCHANGED <<fsVars, seqVars, input, primary, warned>>
  /\ UNCHANGED <<handleVars, loopVars, sinkVars>>

\* write of the results file, comparison, rendering of the comment body and,
\* when nothing is posted, the verdict: the synchronous block after the runs
Report ==
  /\ pc = "report"
  /\ outputWrites' = (IF variant \in WritesOutput THEN outputWrites + 1
                      ELSE outputWrites)
  /\ outputContent' = (IF variant \in WritesOutput THEN results
                       ELSE outputContent)
  /\ IF variant = "spawn" /\ ~input.baselineExists
     THEN /\ pc' = Cleanup
          /\ UNCHANGED <<tableRows, regressionDetected, rendered, err, lastFailed>>
     ELSE LET rows == ComparisonRows
          IN /\ tableRows' = rows
             /\ IF RenderThrows(rows)
                THEN /\ regressionDetected' = RegressionBeforeThrow(rows)
                     /\ err' = "typeError"
                     /\ pc' = "catch"
                     /\ UNCHANGED <<rendered, lastFailed>>
                ELSE /\ regressionDetected' = AnyRegression(rows)
                     /\ rendered' = TRUE
                     /\ UNCHANGED err
                     /\ IF input.token
                        THEN pc' = "list" /\ UNCHANGED lastFailed
                        ELSE /\ lastFailed' = Verdict(AnyRegression(rows), lastFailed)
                             /\ pc' = Cleanup
  /\ UNCHANGED <<fsVars, seqVars, input, primary, warned>>
  /\ UNCHANGED <<handleVars, loopVars, sinkVars>>

\* octokit.rest.issues.listComments and the search for the marker
ListComments ==
  /\ pc = "list"
  /\ sinkOps' = Append(sinkOps, "list")
  /\ \/ /\ existing' = (sinkMarked > 0)
        /\ pc' = "upsert"
        /\ UNCHANGED err
     \/ /\ err' = "sink" /\ pc' = "catch"
        /\ UNCHANGED existing
  /\ UNCHANGED <<fsVars, seqVars, input, sinkMarked, primary, lastFailed, warned>>
  /\ UNCHANGED <<handleVars, loopVars, reportVars>>

\* variation of UpdateOrCreate: a comment is created whether or not one
\* with the marker was found
UpdateOrCreateAlwaysCreates ==
  /\ pc = "upsert"
  /\ sinkOps' = Append(sinkOps, "create")
  /\ \/ /\ sinkMarked' = sinkMarked + 1
        /\ lastFailed' = Verdict(regressionDetected, lastFailed)
        /\ pc' = Cleanup
        /\ UNCHANGED err
     \/ /\ err' = "sink" /\ pc' = "catch"
        /\ UNCHANGED <<sinkMarked, lastFailed>>
  /\ UNCHANGED <<fsVars, seqVars, input, existing, primary, warned>>
  /\ UNCHANGED <<handleVars, loopVars, reportVars>>

\* updateComment or createComment, then the verdict
UpdateOrCreate ==
  /\ pc = "upsert"
  /\ sinkOps' = Append(sinkOps, IF existing THEN "update" ELSE "create")
  /\ \/ /\ sinkMarked' = (IF existing THEN sinkMarked ELSE sinkMarked + 1)
        /\ lastFailed' = Verdict(regressionDetected, lastFailed)
        /\ pc' = Cleanup
        /\ UNCHANGED err
     \/ /\ err' = "sink" /\ pc' = "catch"
        /\ UNCHANGED <<sinkMarked, lastFailed>>
  /\ UNCHANGED <<fsVars, seqVars, input, existing, primary, warned>>
  /\ UNCHANGED <<handleVars, loopVars, reportVars>>

\* catch (err) { core.setFailed(err.message) }
Catch ==
  /\ pc = "catch"
  /\ lastFailed' = err
  /\ pc' = Cleanup
  /\ UNCHANGED <<fsVars, seqVars, input, err, primary, warned>>
  /\ UNCHANGED <<handleVars, loopVars, reportVars, sinkVars>>

\* variation of FinallyBrowser: no try/catch around the close, so a rejected
\* close leaves the finally block at once
FinallyBrowserUnguarded ==
  /\ pc = "finBrowser"
  /\ closeInvoked' = closeInvoked + 1
  /\ \/ /\ browser' = "closed"
        /\ pc' = (IF server # "none" THEN "finServer" ELSE "done")
     \/ /\ browser' = "closeFailed"
        /\ pc' = "done"
  /\ openPages' = (IF browser' = "closed" THEN 0 ELSE openPages)
  /\ UNCHANGED <<fsVars, seqVars, input, server, browserVar, page, launched, execStarted,
                 err, primary, lastFailed, warned>>
  /\ UNCHANGED <<loopVars, reportVars, sinkVars>>

\* cleanup phase: if (browser) try { ... await browser.close() } catch { warning }
FinallyBrowser ==
  /\ pc = "finBrowser"
  /\ closeInvoked' = closeInvoked + 1
  /\ \/ browser' = "closed" /\ UNCHANGED warned
     \/ browser' = "closeFailed" /\ warned' = TRUE
  /\ pc' = (IF server # "none" THEN "finServer" ELSE "done")
  /\ openPages' = (IF browser' = "closed" THEN 0 ELSE openPages)
  /\ UNCHANGED <<fsVars, seqVars, input, server, browserVar, page, launched, execStarted,
                 err, primary, lastFailed>>
  /\ UNCHANGED <<loopVars, reportVars, sinkVars>>

\* cleanup phase: if (server) server.close(...) / process.kill(-server.pid)
FinallyServer ==
  /\ pc = "finServer"
  /\ server' = "closed"
  /\ pc' = "done"
  /\ UNCHANGED <<fsVars, seqVars, input, browserVar, browser, page, openPages,
                 launched, closeInvoked,
                 execStarted, err, primary, lastFailed, warned>>
  /\ UNCHANGED <<loopVars, reportVars, sinkVars>>

Next ==
  \/ Configure
  \/ Discover
  \/ Launch
  \/ RibLaunch
  \/ NewPage
  \/ Goto
  \/ WaitForResult
  \/ ReadResult
  \/ ClosePage
  \/ CloseBrowserAfterLoop
  \/ RibFinally
  \/ Aggregate
  \/ Report
  \/ ListComments
  \/ UpdateOrCreate
  \/ Catch
  \/ FinallyBrowser
  \/ FinallyServer

Spec == Init /\ [][Next]_vars


\* ------------------------------------------------ sequential invocations
\* run() invoked again and again on the same checkout and the same pull
\* request: the harness pages on disk and the comments in the sink persist
\* from one invocation to the next, everything else starts afresh.
\* The averaged variant, with its 2 * REPEATS executions per scenario, is
\* followed on at most one scenario.

\* page states on disk before the first invocation
InitialFileStates(i) ==
  IF i.variant \in Ensuring
  THEN [1..i.nScen -> [Pages -> {"absent", "user"}]]
  ELSE {<<>>}

InitSeq ==
  /\ input \in {i \in Inputs : /\ WellFormed(i)
                               /\ i.distExists /\ i.pixiExists /\ i.token
                               /\ i.nScen <= (IF i.variant = "averaged" THEN 1 ELSE SeqScen)
                               /\ i.perfChange = Num(5)}
  /\ pc = "start"
  /\ server = "none"
  /\ browserVar = FALSE
  /\ browser = "none"
  /\ page = "none"
  /\ openPages = 0
  /\ idx = 0
  /\ side = "dev"
  /\ rep = 0
  /\ sampleFPS = <<>>
  /\ devResult = Null
  /\ ribResult = Null
  /\ results = <<>>
  /\ tableRows = <<>>
  /\ regressionDetected = FALSE
  /\ rendered = FALSE
  /\ err = "none"
  /\ primary = "none"
  /\ lastFailed = "none"
  /\ warned = FALSE
  /\ outputWrites = 0
  /\ sinkMarked \in 0..MaxMarked
  /\ sinkOps = <<>>
  /\ launched = 0
  /\ closeInvoked = 0
  /\ existing = FALSE
  /\ files \in InitialFileStates(input)
  /\ fileWrites = 0
  /\ outputContent = <<>>
  /\ invocation = 1
  /\ sinkBefore = sinkMarked
  /\ otherPc = "idle"
  /\ otherExisting = FALSE
  /\ execStarted = 0

\* the next invocation of run() starts once the previous one has returned
NextInvocation ==
  /\ pc = "done"
  /\ invocation < MaxInvocations
  /\ invocation' = invocation + 1
  /\ pc' = "start"
  /\ server' = "none"
  /\ browserVar' = FALSE
  /\ browser' = "none"
  /\ page' = "none"
  /\ openPages' = 0
  /\ idx' = 0
  /\ side' = "dev"
  /\ rep' = 0
  /\ sampleFPS' = <<>>
  /\ devResult' = Null
  /\ ribResult' = Null
  /\ results' = <<>>
  /\ tableRows' = <<>>
  /\ regressionDetected' = FALSE
  /\ rendered' = FALSE
  /\ err' = "none"
  /\ primary' = "none"
  /\ lastFailed' = "none"
  /\ warned' = FALSE
  /\ outputWrites' = 0
  /\ sinkOps' = <<>>
  /\ launched' = 0
  /\ closeInvoked' = 0
  /\ existing' = FALSE
  /\ outputContent' = <<>>
  /\ execStarted' = 0
  /\ UNCHANGED <<input, sinkMarked, sinkBefore, otherPc, otherExisting, fsVars>>

NextSeq ==
  \/ Next
  \/ NextInvocation

SpecSeq == InitSeq /\ [][NextSeq]_vars

\* ------------------------------------------- the comparison phase alone
\* The comparison phase of run() started on result sets drawn from wider
\* value sets: fps 0, a missing fps, non-integer means, a threshold of 0 and
\* baseline entries that carry names.

\* fps of a page result or of a baseline entry
CompareFps == {Num(0), Num(60), Undefined}
\* devResult.avg of the averaged variant
CompareAvgs == {Num(0), Fin(1, 2), Num(30), Num(60), Num(90), NaN}
\* samples of the local page of the averaged variant
CompareSamples == {Num(0), Fin(132, 5), Fin(138, 5), Num(30), Num(60),
                   Fin(432, 5), Num(90), Undefined}
\* Number(core.getInput('perf-change')); 0 is what an unset input gives
ComparePerfChanges == {Num(0), Num(5), Num(10)}

SeqsOfLen(S, n) == {q \in SeqsUpTo(S, n) : Len(q) = n}

CompareScenCounts(v) ==
  IF v \in {"spawn", "single", "averaged"} THEN {1} ELSE 1..MaxScen

CompareInputs ==
  { [variant |-> v, distExists |-> TRUE, pixiExists |-> TRUE, nScen |-> n,
     names |-> nm, baselineExists |-> be, baseline |-> bl[1],
     baselineNames |-> bl[2], perfChange |-> pcg, token |-> FALSE] :
      v \in Variants, n \in 1..MaxScen, nm \in SeqsUpTo(Names, MaxScen),
      be \in BOOLEAN,
      bl \in {b \in SeqsUpTo(CompareFps, MaxScen) \X SeqsUpTo(Names, MaxScen) :
                Len(b[1]) = Len(b[2])},
      pcg \in ComparePerfChanges }

CompareWellFormed(i) ==
  /\ i.nScen \in CompareScenCounts(i.variant)
  /\ Len(i.names) = i.nScen
  /\ (i.variant = "averaged" => i.names[1] = "a")
  /\ Len(i.baseline) <= i.nScen
  /\ (~(i.variant \in WithBaseline /\ i.baselineExists) => i.baseline = <<>>)
  /\ (i.variant \notin WithBaseline => ~i.baselineExists)

\* results of a page loop in which every execution succeeded
CompareResults(i) ==
  IF i.variant = "averaged" THEN {<<>>}
  ELSE LET np == IF i.variant = "devlocal" THEN 2 * i.nScen ELSE i.nScen
       IN { [j \in 1..np |->
               [name |-> i.names[IF i.variant = "devlocal" THEN (j + 1) \div 2 ELSE j],
                fps |-> f[j],
                variant |-> IF i.variant = "devlocal"
                            THEN (IF j % 2 = 1 THEN "dev" ELSE "local")
                            ELSE "pr"]] :
              f \in SeqsOfLen(CompareFps, np) }

\* the state at the comparison: after the page loop, or at the return of
\* the runIsolatedBenchmark call for the local page
AtComparison(I, other) ==
  /\ input \in I
  /\ results \in CompareResults(input)
  /\ IF variant = "averaged"
     THEN /\ pc = "ribReturn" /\ side = "local" /\ rep = REPEATS /\ idx = 0
          /\ devResult \in CompareAvgs
          /\ ribResult = RibAggregate([j \in 1..REPEATS |->
                 IF devResult = NaN THEN Undefined ELSE devResult])
          /\ sampleFPS \in SeqsOfLen(CompareSamples, REPEATS)
          /\ launched = 2 * REPEATS /\ closeInvoked = 2 * REPEATS
          /\ execStarted = 2 * REPEATS
          /\ browser = "closed" /\ browserVar = FALSE
     ELSE /\ pc = "report" /\ side = "dev" /\ rep = 0 /\ idx = Len(results)
          /\ devResult = Null
          /\ ribResult = Null
          /\ sampleFPS = <<>>
          /\ launched = 1 /\ execStarted = Len(results)
          /\ closeInvoked = (IF variant \in Guarded THEN 0 ELSE 1)
          /\ browser = (IF variant \in Guarded THEN "open" ELSE "closed")
          /\ browserVar = (variant \in Guarded)
  /\ server = "listening"
  /\ page = "closed"
  /\ openPages = 0
  /\ tableRows = <<>>
  /\ regressionDetected = FALSE
  /\ rendered = FALSE
  /\ err = "none"
  /\ primary = "none"
  /\ lastFailed = "none"
  /\ warned = FALSE
  /\ outputWrites = 0
  /\ outputContent = <<>>
  /\ sinkMarked = 0
  /\ sinkOps = <<>>
  /\ existing = FALSE
  /\ files = EnsuredFiles(InitialFiles(input))
  /\ fileWrites = Cardinality(MissingPages(InitialFiles(input)))
  /\ invocation = 1
  /\ sinkBefore = sinkMarked
  /\ otherPc = other
  /\ otherExisting = FALSE

InitCompare == AtComparison({i \in CompareInputs : CompareWellFormed(i)}, "idle")

NextCompare ==
  \/ Aggregate
  \/ Report
  \/ Catch
  \/ FinallyBrowser
  \/ FinallyServer

SpecCompare == InitCompare /\ [][NextCompare]_vars

\* ------------------------------------------- the repeated measurements
\* The averaged run() on one scenario, from its first runIsolatedBenchmark
\* call on, with pages that deliver one of three fps values.

RepeatFps == {Num(58), Num(60), Num(62)}

RepeatInput ==
  [variant |-> "averaged", distExists |-> TRUE, pixiExists |-> TRUE,
   nScen |-> 1, names |-> <<"a">>, baselineExists |-> FALSE,
   baseline |-> <<>>, perfChange |-> Num(5), token |-> FALSE,
   fpsValues |-> RepeatFps]

InitRepeat ==
  /\ input = RepeatInput
  /\ pc = "ribLaunch"
  /\ server = "listening"
  /\ browserVar = FALSE
  /\ browser = "none"
  /\ page = "none"
  /\ openPages = 0
  /\ idx = 0
  /\ side = "dev"
  /\ rep = 0
  /\ sampleFPS = <<>>
  /\ devResult = Null
  /\ ribResult = Null
  /\ results = <<>>
  /\ tableRows = <<>>
  /\ regressionDetected = FALSE
  /\ rendered = FALSE
  /\ err = "none"
  /\ primary = "none"
  /\ lastFailed = "none"
  /\ warned = FALSE
  /\ outputWrites = 0
  /\ sinkMarked = 0
  /\ sinkOps = <<>>
  /\ launched = 0
  /\ closeInvoked = 0
  /\ existing = FALSE
  /\ files = EnsuredFiles(InitialFiles(input))
  /\ fileWrites = Cardinality(MissingPages(InitialFiles(input)))
  /\ outputContent = <<>>
  /\ invocation = 1
  /\ sinkBefore = 0
  /\ otherPc = "idle"
  /\ otherExisting = FALSE
  /\ execStarted = 0

NextRepeat ==
  \/ RibLaunch
  \/ NewPage
  \/ Goto
  \/ WaitForResult
  \/ ReadResult
  \/ ClosePage
  \/ RibFinally
  \/ Aggregate
  \/ Report
  \/ Catch
  \/ FinallyServer

SpecRepeat == InitRepeat /\ [][NextRepeat]_vars

\* ------------------------------------------------ concurrent invocations
\* Two invocations of run() for the same pull request, both with posting
\* enabled, from a sink without a marker-containing comment. Of the second
\* one only the posting step is followed; its steps interleave with the
\* steps of the first.

\* the second invocation's listComments and search for the marker
OtherListComments ==
  /\ otherPc = "list"
  /\ \/ /\ otherExisting' = (sinkMarked > 0)
        /\ otherPc' = "upsert"
     \/ /\ otherPc' = "done"
        /\ UNCHANGED otherExisting
  /\ UNCHANGED <<fsVars, invocation, sinkBefore, input, pc, err, primary, lastFailed,
                 warned>>
  /\ UNCHANGED <<handleVars, loopVars, reportVars, sinkVars>>

\* the second invocation's updateComment or createComment
OtherUpdateOrCreate ==
  /\ otherPc = "upsert"
  /\ otherPc' = "done"
  /\ \/ sinkMarked' = (IF otherExisting THEN sinkMarked ELSE sinkMarked + 1)
     \/ UNCHANGED sinkMarked
  /\ UNCHANGED <<fsVars, invocation, sinkBefore, otherExisting, input, pc, err,
                 primary, lastFailed, warned, sinkOps, existing>>
  /\ UNCHANGED <<handleVars, loopVars, reportVars>>

RaceInputs ==
  { [i EXCEPT !.token = TRUE] :
      i \in {j \in CompareInputs : /\ CompareWellFormed(j)
                                   /\ j.nScen = 1
                                   /\ j.perfChange = Num(5)} }

InitRace == AtComparison(RaceInputs, "list")

NextRace ==
  \/ Aggregate
  \/ Report
  \/ ListComments
  \/ UpdateOrCreate
  \/ Catch
  \/ FinallyBrowser
  \/ FinallyServer
  \/ OtherListComments
  \/ OtherUpdateOrCreate

SpecRace == InitRace /\ [][NextRace]_vars

\* ------------------------------------------------------------ properties
\* number of benchmark executions the invocation has to perform
Planned == IF variant = "averaged" THEN 2 * REPEATS * input.nScen ELSE NPages

\* every planned execution ran and delivered its result, and neither a
\* teardown call nor the comment sink rejected
AllExecutionsSucceeded ==
  /\ Planned > 0
  /\ execStarted = Planned
  /\ primary = "none"
  /\ err \notin {"sink", "closePage", "closeBrowser"}

BothSides(row) == row.devFPS.k \notin {"null", "str"} /\ row.prFPS.k \notin {"null", "str"}

\* C1: in the variants with one shared browser, when run() has returned no
\* page and no browser is left on which close was never invoked.
C1_SharedBrowserTornDown ==
  (pc = "done" /\ variant \in SharedBrowser) => (browser # "open" /\ page # "open")

\* C2: in runIsolatedBenchmark, when a failed execution reaches the caller,
\* close has been invoked on the browser launched for that repeat.
C2_RepeatBrowserClosedBeforePropagation ==
  (variant = "averaged" /\ pc = "catch" /\ primary # "none")
    => (closeInvoked = launched /\ browser \in {"closed", "closeFailed"})

C2_Witness ==
  /\ variant = "averaged" /\ pc = "catch" /\ primary = "timeout"
  /\ rep = 1 /\ launched = 2 /\ browser = "closed"

\* C3: in the variants with a guarded cleanup phase a listening server is
\* closed when run() returns, the close of a launched browser is attempted
\* before the server is closed, and a rejected browser close does not keep
\* the server open.
C3_ServerClosedAfterBrowser ==
  variant \in Guarded =>
    /\ (pc = "done" => server # "listening")
    /\ (server = "closed" /\ launched > 0
          => (closeInvoked = launched /\ browser \in {"closed", "closeFailed"}))

C3_Witness ==
  /\ variant \in Guarded /\ pc = "done" /\ server = "closed"
  /\ browser = "closeFailed" /\ warned

\* C4: when an execution failed with E, the message of the last setFailed
\* call is E's message, whatever the teardown calls did.
C4_PrimaryErrorReported ==
  (pc = "done" /\ primary # "none") => lastFailed = primary

\* C5: once an execution failed by navigation error or timeout, no further
\* execution or browser is started, no report is rendered or sent, and the
\* invocation ends failed.
C5_FailFast ==
  [][(primary \in {"nav", "timeout"}) =>
       (/\ primary' = primary
        /\ execStarted' = execStarted
        /\ launched' = launched
        /\ ~rendered'
        /\ sinkOps' = sinkOps
        /\ (pc' = "done" => lastFailed' # "none"))]_vars

C5_Witness ==
  /\ pc = "done" /\ primary = "nav" /\ lastFailed = "nav"
  /\ execStarted = 1 /\ Planned > 1 /\ ~rendered /\ sinkOps = <<>>

\* C6: when the comment sink rejected, the invocation is failed exactly if a
\* regression was detected, and then the regression is the reported reason.
C6_SinkFailureNotFatal ==
  (pc = "done" /\ err = "sink") =>
    /\ (lastFailed # "none" <=> regressionDetected)
    /\ (regressionDetected => lastFailed = "regression")

\* C7: when every execution succeeded and the sink did not reject, run()
\* has signalled failure exactly if some comparison row is regressed.
C7_FailureIffRegressedRow ==
  (pc = "done" /\ AllExecutionsSucceeded) =>
    (lastFailed # "none" <=> AnyRegression(tableRows))

\* C8: in the variants reading a baseline file, a row without baseline has
\* no diffPercent and is not regressed, and when no row has a baseline the
\* invocation ends without failure signal.
C8_MissingBaselineIsNoError ==
  (pc = "done" /\ variant \in WithBaseline /\ AllExecutionsSucceeded) =>
    /\ \A r \in 1..Len(tableRows) :
         tableRows[r].devFPS.k = "null" =>
           (tableRows[r].diffPercent.k = "null" /\ ~tableRows[r].regression)
    /\ ((\A r \in 1..Len(tableRows) : tableRows[r].devFPS.k = "null")
          => lastFailed = "none")

\* C9: for a row with both sides present and a positive baseline,
\* diffPercent = (baseline - candidate) / baseline * 100, which is positive
\* exactly when the candidate is lower; baseline 60 and candidate 54 give 10,
\* regressed under a threshold of 5.
C9_DiffPercentSign ==
  \A r \in 1..Len(tableRows) :
    LET row == tableRows[r]
        b == row.devFPS
        c == row.prFPS
        x == row.diffPercent
    IN (BothSides(row) /\ IsFin(b) /\ IsFin(c) /\ b.n > 0) =>
         /\ IsFin(x)
         /\ x.n * b.n * c.d = 100 * (b.n * c.d - c.n * b.d) * x.d
         /\ (x.n > 0 <=> c.n * b.d < b.n * c.d)
         /\ ((b.n = 60 /\ b.d = 1 /\ c.n = 54 /\ c.d = 1) =>
               /\ x.n = 10 /\ x.d = 1
               /\ (input.perfChange = Num(5) => row.regression))

C9_Witness ==
  /\ pc = "done" /\ variant = "devlocal" /\ input.perfChange = Num(5)
  /\ \E r \in 1..Len(tableRows) :
       /\ tableRows[r].devFPS = Num(60) /\ tableRows[r].prFPS = Num(54)
       /\ tableRows[r].diffPercent = Num(10) /\ tableRows[r].regression

\* C10 as stated: in the fixed-threshold variants a row with both sides is
\* regressed exactly if diffPercent exceeds the perf-change input.
C10_Original ==
  variant \in FixedThreshold =>
    \A r \in 1..Len(tableRows) :
      BothSides(tableRows[r]) =>
        (tableRows[r].regression <=>
           /\ IsFin(tableRows[r].diffPercent)
           /\ tableRows[r].diffPercent.n * input.perfChange.d
                > input.perfChange.n * tableRows[r].diffPercent.d)

\* C10 amended: in the fixed-threshold variants a row with both sides is
\* regressed exactly if diffPercent strictly exceeds the variant's
\* threshold: the perf-change input, or the constant 5 in the variant with
\* the spawned server; a diffPercent equal to the threshold is no regression.
C10_StrictThreshold ==
  variant \in FixedThreshold =>
    \A r \in 1..Len(tableRows) :
      LET x == tableRows[r].diffPercent
          t == IF variant = "spawn" THEN [n |-> 5, d |-> 1] ELSE input.perfChange
      IN BothSides(tableRows[r]) =>
           (tableRows[r].regression <=> (IsFin(x) /\ x.n * t.d > t.n * x.d))

C10_Witness ==
  /\ variant = "multi" /\ input.perfChange = Num(10)
  /\ \E r \in 1..Len(tableRows) :
       /\ tableRows[r].diffPercent = Num(10)
       /\ ~tableRows[r].regression


\* C12: the trend of a row is Down when diffPercent > 0, Up when
\* diffPercent < 0, and None when diffPercent is absent or exactly zero.
C12_TrendFromSign ==
  \A r \in 1..Len(tableRows) :
    LET x == tableRows[r].diffPercent
    IN /\ (x.k \in {"null", "str"} => tableRows[r].arrow = "null")
       /\ (Sign(x) > 0 => tableRows[r].arrow = "down")
       /\ (Sign(x) < 0 => tableRows[r].arrow = "up")
       /\ ((IsFin(x) /\ x.n = 0) => tableRows[r].arrow = "null")

\* C17: in the variants that discover their scenarios, a benchmark root
\* without entry point ends failed, with no browser launched and nothing
\* sent to the comment sink.
C17_NoEntriesIsFatal ==
  (pc = "done" /\ variant \in Discovering /\ input.nScen = 0) =>
    (lastFailed # "none" /\ launched = 0 /\ sinkOps = <<>>)

\* C19: when every execution succeeded the results file has been written
\* exactly once and holds one entry per execution in execution order; when
\* an execution failed it has not been written.
C19_ResultsFileWrittenOnce ==
  /\ (pc = "done" /\ AllExecutionsSucceeded) =>
       (outputWrites = 1 /\ Len(outputContent) = NPages /\ outputContent = results)
  /\ (primary # "none" => (outputWrites = 0 /\ outputContent = <<>>))

\* C20: without token no comment-sink operation is performed and no sink
\* failure occurs, and a rendered report leads to the same outcome as with
\* posting enabled and succeeding: failed exactly if a row is regressed.
C20_NoTokenNoPosting ==
  /\ (~input.token => (sinkOps = <<>> /\ err # "sink"))
  /\ (pc = "done" /\ rendered
        /\ (~input.token \/ (Len(sinkOps) = 2 /\ err = "none")))
       => lastFailed = (IF \E r \in 1..Len(tableRows) : tableRows[r].regression
                        THEN "regression" ELSE "none")

C20_Witness ==
  /\ pc = "done" /\ ~input.token /\ rendered /\ sinkOps = <<>>
  /\ lastFailed = "regression"

\* rows of the averaged comparison
AveragedRows == IF variant = "averaged" THEN 1..Len(tableRows) ELSE {}

\* a < b for finite rationals with positive denominators
Less(a, b) == a.n * b.d < b.n * a.d

\* p * 60 / max(b, 1) for finite p and b
ScaledTolerance(p, b) ==
  IF b.n < b.d THEN Fin(p.n * ReferenceFps, p.d)
  ELSE Fin(p.n * ReferenceFps * b.d, p.d * b.n)

AveragedToleranceLaw(positiveOnly) ==
  \A r \in AveragedRows :
    LET b == tableRows[r].devFPS
        x == tableRows[r].diffPercent
        p == input.perfChange
        a == AllowedPercent(p, b)
        scaled == positiveOnly => p.n > 0
    IN IsFin(b) =>
         /\ a = ScaledTolerance(p, b)
         /\ tableRows[r].regression <=> (IsFin(x) /\ Less(a, x))
         /\ (Less(b, Num(ReferenceFps)) /\ scaled) => Less(p, a)
         /\ (b = Num(ReferenceFps)) => a = p
         /\ (Less(Num(ReferenceFps), b) /\ scaled) => Less(a, p)
         /\ (positiveOnly /\ p.n = 0) => a = Num(0)
         /\ (b = Num(30) /\ p = Num(5) /\ x = Num(8)) => ~tableRows[r].regression
         /\ (b = Num(30) /\ p = Num(5) /\ x = Num(12)) => tableRows[r].regression

\* C11 as stated: in the averaged comparison the tolerance is
\* p * 60 / max(b, 1), a row is regressed exactly when its diff exceeds it,
\* and for every p the tolerance is above p when b < 60, p at b = 60 and
\* below p when b > 60.
C11_Original == AveragedToleranceLaw(FALSE)

\* C11 amended: the same, with the strict comparisons of the tolerance with
\* p holding for every positive p; for p = 0 the tolerance is 0 at every b.
C11_FpsScaledTolerance == AveragedToleranceLaw(TRUE)

C11_Witness ==
  \E r \in AveragedRows :
    /\ tableRows[r].devFPS = Num(30)
    /\ input.perfChange = Num(5)
    /\ tableRows[r].diffPercent = Num(8)
    /\ ~tableRows[r].regression

\* the baseline is the candidate result set itself, every fps a
\* non-negative number
SelfCompared ==
  IF variant = "averaged"
  THEN /\ tableRows # <<>>
       /\ \A r \in 1..Len(tableRows) :
            IsFin(tableRows[r].devFPS) /\ tableRows[r].devFPS = tableRows[r].prFPS
  ELSE IF variant = "devlocal"
  THEN \A s \in 1..input.nScen :
         IsFin(results[2 * s - 1].fps) /\ results[2 * s - 1].fps = results[2 * s].fps
  ELSE /\ input.baselineExists
       /\ Len(input.baseline) = Len(results)
       /\ \A j \in 1..Len(results) :
            /\ IsFin(results[j].fps)
            /\ input.baseline[j] = results[j].fps
            /\ input.baselineNames[j] = results[j].name

\* C13: comparing a result set against itself (non-negative fps values
\* including 0, any non-negative threshold) gives diffPercent = 0 in every
\* row and no overall regression.
C13_SelfComparisonIsZero ==
  (rendered /\ SelfCompared) =>
     /\ tableRows # <<>>
     /\ \A r \in 1..Len(tableRows) :
          tableRows[r].diffPercent = Num(0) /\ ~tableRows[r].regression
     /\ ~regressionDetected
     /\ lastFailed # "regression"

\* the same for result sets whose fps values are all positive
C13_PositiveSelfComparisonIsZero ==
  (\A r \in 1..Len(tableRows) : tableRows[r].devFPS # Num(0))
     => C13_SelfComparisonIsZero

\* C14: a result with a missing fps (NaN after conversion) on either side
\* makes nothing throw, is never regressed, and is reported as incomparable:
\* diffPercent absent and no trend.
C14_MissingFpsIsIncomparable ==
  LET nanRows == {r \in 1..Len(tableRows) :
                    tableRows[r].devFPS.k = "nan" \/ tableRows[r].prFPS.k = "nan"}
  IN /\ \A r \in nanRows :
          /\ ~tableRows[r].regression
          /\ tableRows[r].diffPercent.k = "null"
          /\ tableRows[r].arrow = "null"
     /\ (nanRows # {} /\ ~RenderThrows(tableRows)) => err = "none"

\* the part of C14 the code keeps: nothing throws, no regression
C14_MissingFpsNeverRegressed ==
  LET nanRows == {r \in 1..Len(tableRows) :
                    tableRows[r].devFPS.k = "nan" \/ tableRows[r].prFPS.k = "nan"}
  IN /\ \A r \in nanRows : ~tableRows[r].regression
     /\ (nanRows # {} /\ ~RenderThrows(tableRows)) => err = "none"

\* <<name, fps>> of the entries of the baseline set and of the candidate set
BaselineEntries ==
  IF variant = "devlocal"
  THEN {<<results[j].name, ToNumber(results[j].fps)>> :
          j \in {l \in 1..Len(results) : results[l].variant = "dev"}}
  ELSE {<<input.baselineNames[j], ToNumber(input.baseline[j])>> :
          j \in 1..Len(input.baseline)}

CandidateEntries ==
  IF variant = "devlocal"
  THEN {<<results[j].name, ToNumber(results[j].fps)>> :
          j \in {l \in 1..Len(results) : results[l].variant = "local"}}
  ELSE {<<results[j].name, ToNumber(results[j].fps)>> : j \in 1..Len(results)}

NamesOf(entries) == {e[1] : e \in entries}

\* no two entries of a set carry the same name
IsMap(entries) == \A e1, e2 \in entries : e1[1] = e2[1] => e1 = e2

\* C16: the report is the by-name join of the baseline and the candidate
\* set: one row per name of either set, a row with both sides pairs the
\* results of that name, a baseline-only name is still reported.
C16_JoinByName ==
  (rendered /\ variant # "averaged" /\ IsMap(BaselineEntries) /\ IsMap(CandidateEntries)
     /\ Cardinality(BaselineEntries) = Len(input.baseline) + (IF variant = "devlocal" THEN input.nScen ELSE 0)
     /\ Cardinality(CandidateEntries) = Len(results) - (IF variant = "devlocal" THEN input.nScen ELSE 0)) =>
     LET all == NamesOf(BaselineEntries) \cup NamesOf(CandidateEntries)
     IN /\ \A n \in all :
             Cardinality({r \in 1..Len(tableRows) : tableRows[r].name = n}) = 1
        /\ \A r \in 1..Len(tableRows) :
             /\ tableRows[r].name \in all
             /\ (tableRows[r].devFPS.k # "null" /\ tableRows[r].prFPS.k # "null") =>
                  /\ <<tableRows[r].name, tableRows[r].devFPS>> \in BaselineEntries
                  /\ <<tableRows[r].name, tableRows[r].prFPS>> \in CandidateEntries
        /\ \A n \in NamesOf(BaselineEntries) \ NamesOf(CandidateEntries) :
             \E r \in 1..Len(tableRows) :
               /\ tableRows[r].name = n
               /\ tableRows[r].prFPS.k = "null"
               /\ ~tableRows[r].regression

\* the same for the variant that groups the results by name
C16_GroupedJoinByName == variant = "devlocal" => C16_JoinByName

\* C15: update-or-create is idempotent over sequential invocations: the
\* sink holds one more marker-containing comment than before the first
\* invocation if it held none, and as many as before otherwise; an
\* invocation that finds a marker-containing comment updates it and creates
\* nothing. (listComments is taken to return every comment of the pull
\* request.)
C15_UpdateOrCreateIdempotent ==
  /\ [](sinkMarked \in {sinkBefore, IF sinkBefore = 0 THEN 1 ELSE sinkBefore})
  /\ []((pc = "done" /\ rendered /\ err = "none" /\ input.token) =>
          sinkMarked = (IF sinkBefore = 0 THEN 1 ELSE sinkBefore))
  /\ [][(pc = "upsert" /\ existing) =>
          (sinkMarked' = sinkMarked /\ sinkOps' = Append(sinkOps, "update"))]_vars

C15_Witness ==
  /\ invocation = 2
  /\ pc = "done"
  /\ sinkBefore = 0
  /\ sinkMarked = 1
  /\ sinkOps = <<"list", "update">>

\* C18: ensureBenchmarkHtmlTemplates never overwrites an existing page,
\* leaves every index.mjs directory with both pages, and writes nothing
\* when called a second time.
C18_TemplatesNeverOverwritten ==
  [][/\ \A d \in DOMAIN files : \A p \in Pages :
          files[d][p] # "absent" => files'[d][p] = files[d][p]
     /\ (pc = "discover" /\ variant \in Ensuring) =>
          \A d \in DOMAIN files : \A p \in Pages : files'[d][p] # "absent"
     /\ (pc = "discover" /\ invocation > 1) =>
          (files' = files /\ fileWrites' = fileWrites)]_vars

C18_Witness ==
  /\ variant \in Ensuring
  /\ invocation = 2
  /\ pc \notin {"start", "discover"}
  /\ fileWrites = 1
  /\ \E d \in DOMAIN files :
       files[d]["local"] = "user" /\ files[d]["dev"] = Template("dev")

\* browsers launched by runIsolatedBenchmark whose close has not completed
AliveBrowsers ==
  launched - closeInvoked + (IF browser = "closeFailed" THEN 1 ELSE 0)

\* runIsolatedBenchmark calls that have returned
ReturnedCalls == 2 * idx + (IF side = "local" THEN 1 ELSE 0)

\* C21: in runIsolatedBenchmark every repeat has a browser of its own, closed
\* before the next repeat launches: at most one such browser is alive at any
\* time, and on return exactly REPEATS were launched and all are closed.
C21_OneBrowserPerRepeat ==
  variant = "averaged" =>
    /\ AliveBrowsers \in {0, 1}
    /\ execStarted <= launched
    /\ (pc = "ribLaunch" =>
          /\ browser \in {"none", "closed"}
          /\ closeInvoked = launched
          /\ execStarted = launched
          /\ launched = REPEATS * ReturnedCalls + rep)
    /\ (pc = "ribReturn" =>
          /\ launched = REPEATS * (ReturnedCalls + 1)
          /\ closeInvoked = launched
          /\ execStarted = launched
          /\ browser = "closed")

C21_Witness ==
  /\ variant = "averaged"
  /\ pc = "ribReturn"
  /\ side = "local"
  /\ launched = 2 * REPEATS
  /\ closeInvoked = 2 * REPEATS
  /\ browser = "closed"

\* an execution (goto, wait for the result, read it) is in progress
Executing == pc \in {"goto", "wait", "read"}

\* C22: executions are strictly serialized in a fixed order: scenarios in
\* discovery order, dev before local, all repeats of one (scenario, variant)
\* before the next one starts, the mean of a (scenario, variant) computed
\* only after all its repeats, and never two pages open at the same time.
C22_StrictlySerialized ==
  /\ openPages \in {0, 1}
  /\ (variant = "averaged" /\ Executing) =>
        /\ idx < input.nScen /\ rep < REPEATS
        /\ execStarted = REPEATS * ReturnedCalls + rep + 1
        /\ Len(sampleFPS) = rep
        /\ Len(tableRows) = idx
  /\ (variant = "averaged" /\ pc \notin {"start", "discover"}) =>
        ((devResult # Null) <=> (side = "local" /\ Len(tableRows) = idx))
  /\ (variant = "averaged" /\ pc = "ribReturn") =>
        (Len(sampleFPS) = REPEATS /\ rep = REPEATS /\ openPages = 0)
  /\ (variant = "devlocal" /\ Executing) =>
        (execStarted = idx + 1 /\ Len(results) = idx /\ idx < NPages)
  /\ variant = "devlocal" =>
        \A j \in 1..Len(results) :
          /\ results[j].name = input.names[(j + 1) \div 2]
          /\ results[j].variant = (IF j % 2 = 1 THEN "dev" ELSE "local")

C22_Witness ==
  /\ variant = "averaged"
  /\ pc = "goto"
  /\ idx = 1
  /\ side = "local"
  /\ rep = REPEATS - 1
  /\ execStarted = 4 * REPEATS
  /\ openPages = 1

\* radicand of a standard deviation: its square
Squared(x) == IF x.k = "sqrt" THEN Fin(x.n, x.d) ELSE Fin(x.n * x.n, x.d * x.d)

\* sum of the numerators of integer samples
RECURSIVE IntSum(_, _)
IntSum(q, i) == IF i > Len(q) THEN 0 ELSE q[i].n + IntSum(q, i + 1)

\* sum over the samples of (avg.d * (sample - avg)) ^ 2
RECURSIVE ScaledSquares(_, _, _)
ScaledSquares(q, avg, i) ==
  IF i > Len(q) THEN 0
  ELSE (q[i].n * avg.d - avg.n) * (q[i].n * avg.d - avg.n)
         + ScaledSquares(q, avg, i + 1)

\* C23: whenever runIsolatedBenchmark returns, samples has REPEATS elements
\* in repeat order, avg is their arithmetic mean and stddev their population
\* standard deviation (divide by N): [58, 60, 62] gives mean 60 and variance
\* 8/3, identical samples give stddev 0; a failed repeat makes the function
\* throw instead of returning an aggregate over fewer samples.
C23_AggregateOfAllRepeats ==
  /\ [](ribResult # Null =>
          LET q == ribResult.samples
              avg == ribResult.avg
              var == Squared(ribResult.stddev)
          IN /\ Len(q) = REPEATS
             /\ \A i \in 1..Len(q) : IsFin(q[i]) /\ q[i].d = 1
             /\ IsFin(avg)
             /\ avg.n * Len(q) = avg.d * IntSum(q, 1)
             /\ ribResult.stddev.k \in {"fin", "sqrt"}
             /\ var.n * Len(q) * avg.d * avg.d = var.d * ScaledSquares(q, avg, 1)
             /\ (q = <<Num(58), Num(60), Num(62)>> =>
                   (avg = Num(60) /\ var = Fin(8, 3)))
             /\ ((\A i \in 1..Len(q) : q[i] = q[1]) => ribResult.stddev = Num(0)))
  /\ [](pc = "ribReturn" => (Len(sampleFPS) = REPEATS /\ err = "none"))
  /\ []((pc = "done" /\ primary # "none") => lastFailed # "none")
  /\ [][/\ (sampleFPS' # sampleFPS /\ sampleFPS' # <<>>) =>
             (Len(sampleFPS') = rep + 1 /\ SubSeq(sampleFPS', 1, rep) = sampleFPS)
        /\ (ribResult' # ribResult) =>
             (err = "none" /\ ribResult'.samples = sampleFPS)
        /\ (err # "none") => (ribResult' = ribResult /\ tableRows' = tableRows)]_vars

C23_Witness ==
  /\ ribResult # Null
  /\ ribResult.samples = <<Num(58), Num(60), Num(62)>>
  /\ ribResult.avg = Num(60)
  /\ ribResult.stddev = [k |-> "sqrt", n |-> 8, d |-> 3]

\* C24: two invocations for the same pull request that interleave their
\* list / search / update-or-create steps, starting from a sink without a
\* marker-containing comment, never leave two marker-containing comments.
C24_AtMostOneMarkedEntry == sinkBefore = 0 => sinkMarked <= 1

\* two marker-containing comments arise only when each invocation listed
\* before the other one created
C24_OneMarkedEntryWhenNotOverlapping ==
  (sinkMarked > 1) => (sinkOps # <<>> /\ ~existing /\ ~otherExisting)

====
